---------------------------- MODULE Spec2Model ----------------------------
(***************************************************************************)
(* A model of the pelican JSON feed plugin (src/json_feed.py).             *)
(*                                                                         *)
(*   JSONFeed            the feed document builder: __init__, _enrich_dict *)
(*                       and add_item, with the two field-mapping tables   *)
(*                       TOP_LEVEL_TRANS and ITEMS_TRANS;                  *)
(*   JSONFeedGenerator   generate_feeds, which hands the host's article    *)
(*                       groupings to writer.write_feed.                   *)
(*                                                                         *)
(* A Python value is a record tagged with its kind.  A Python string is a  *)
(* sequence of one-character strings: the transforms of the plugin iterate *)
(* and slice strings.                                                      *)
(***************************************************************************)
EXTENDS Integers, Sequences, FiniteSets, TLC

VARIABLES
    constructed,  \* JSONFeed.__init__ has returned an object
    feed,         \* self.feed without its 'items' entry: key -> value
    items,        \* self.feed['items']
    raised,       \* the exception the last JSONFeed call raised, "" if none
    initkw,       \* the kwargs __init__ was last called with
    given,        \* (unique_id, kwargs) of each add_item call that returned
    lastcall,     \* the name of the last JSONFeed method called, "" if none
    articles,     \* host: self.articles
    categories,   \* host: self.categories, a list of (category, arts)
    authors,      \* host: self.authors, a list of (author, arts)
    tags,         \* host: self.tags, tag -> arts, in iteration order
    settings,     \* host: the names of self.settings that are set
    calls,        \* the writer.write_feed calls made so far
    pc,           \* the position of generate_feeds
    generror,     \* the exception generate_feeds ended with, "" if none
    articles0     \* self.articles as it was before the call

feedvars == <<constructed, feed, items, raised, initkw, given, lastcall>>
genvars ==
    <<articles, categories, authors, tags, settings, calls, pc, generror, articles0>>
vars == <<feedvars, genvars>>

-----------------------------------------------------------------------------
(* Bounds *)

\* add_item calls made on one feed
MaxItems == 2

\* articles the host has read (their translations come on top)
NumArticles == 3

-----------------------------------------------------------------------------
(* Python values *)

NoneV == [kind |-> "None"]
StrV(s) == [kind |-> "str", s |-> s]
ListV(l) == [kind |-> "list", l |-> l]
DateV(d) == [kind |-> "datetime", d |-> d]
\* the dict {'name': name}
NameDict(name) == [kind |-> "dict", name |-> name]

\* bool(v)
Truthy(v) ==
    CASE v.kind = "None" -> FALSE
      [] v.kind = "str" -> Len(v.s) > 0
      [] v.kind = "list" -> Len(v.l) > 0
      [] v.kind = "datetime" -> TRUE
      [] v.kind = "dict" -> TRUE

\* kwargs.get(key)
Get(kwargs, key) == IF key \in DOMAIN kwargs THEN kwargs[key] ELSE NoneV

\* dict_[key] = value
Put(dict_, key, value) ==
    [k \in DOMAIN dict_ \cup {key} |-> IF k = key THEN value ELSE dict_[k]]

EmptyDict == [k \in {} |-> NoneV]

-----------------------------------------------------------------------------
(* Text: str(), repr(), Markup and its striptags *)

\* repr(s) of a text without quotes or escapes.  The module runs under
\* Python 2 (json.dump is given its encoding by position), where the text
\* of a module with unicode_literals is written u'...'.
ReprStr(s) == <<"u", "'">> \o s \o <<"'">>

RECURSIVE JoinRepr(_)
JoinRepr(l) ==
    IF Len(l) = 0 THEN <<>>
    ELSE IF Len(l) = 1 THEN ReprStr(l[1])
    ELSE ReprStr(l[1]) \o <<",", " ">> \o JoinRepr(Tail(l))

\* str(l) of a list of texts: "[" + ", ".join(repr(t) for t in l) + "]"
StrOfList(l) == <<"[">> \o JoinRepr(l) \o <<"]">>

\* Markup(value): Markup is a text type, Markup(x) is the text of x
Markup(value) ==
    CASE value.kind = "str" -> value.s
      [] value.kind = "list" -> StrOfList(value.l)

\* the index of the first ">" of s at or after i, 0 if there is none
RECURSIVE FindClose(_, _)
FindClose(s, i) ==
    IF i > Len(s) THEN 0
    ELSE IF s[i] = ">" THEN i
    ELSE FindClose(s, i + 1)

\* _striptags_re.sub('', s) for the alternative <[^>]*> (the alphabet of
\* the model holds no "<!--" comment)
RECURSIVE RemoveTags(_, _)
RemoveTags(s, i) ==
    IF i > Len(s) THEN <<>>
    ELSE IF s[i] = "<" /\ FindClose(s, i + 1) > 0
         THEN RemoveTags(s, FindClose(s, i + 1) + 1)
    ELSE <<s[i]>> \o RemoveTags(s, i + 1)

\* u' '.join(s.split()): runs of blanks become one, none at the ends
RECURSIVE JoinWords(_, _, _)
JoinWords(s, i, pending) ==
    IF i > Len(s) THEN <<>>
    ELSE IF s[i] = " " THEN JoinWords(s, i + 1, pending)
    ELSE (IF pending /\ i > 1 /\ s[i - 1] = " " THEN <<" ">> ELSE <<>>)
         \o <<s[i]>> \o JoinWords(s, i + 1, TRUE)

\* Markup.striptags
striptags(s) == JoinWords(RemoveTags(s, 1), 1, FALSE)

\* list(c) of a text c, each character through str(): lambda c: [str(t) for t in c]
RECURSIVE StrEach(_)
StrEach(c) == IF Len(c) = 0 THEN <<>> ELSE << <<c[1]>> >> \o StrEach(Tail(c))

-----------------------------------------------------------------------------
(* Dates: datetime.strftime *)

DigitChars == <<"0", "1", "2", "3", "4", "5", "6", "7", "8", "9">>

Digit(k) == DigitChars[k + 1]

\* n in decimal, zero padded to two or four digits
Pad2(n) == <<Digit((n \div 10) % 10), Digit(n % 10)>>
Pad4(n) == <<Digit((n \div 1000) % 10), Digit((n \div 100) % 10)>> \o Pad2(n)

Abs(n) == IF n < 0 THEN -n ELSE n

\* date.strftime('%z'): +HHMM or -HHMM, empty for a naive date
StrftimeZ(d) ==
    IF ~d.aware THEN <<>>
    ELSE <<IF d.offset < 0 THEN "-" ELSE "+">>
         \o Pad2(Abs(d.offset) \div 60) \o Pad2(Abs(d.offset) % 60)

\* date.strftime("%Y-%m-%dT%H:%M:%S")
StrftimeDateTime(d) ==
    Pad4(d.year) \o <<"-">> \o Pad2(d.month) \o <<"-">> \o Pad2(d.day)
    \o <<"T">> \o Pad2(d.hour) \o <<":">> \o Pad2(d.minute)
    \o <<":">> \o Pad2(d.second)

Max(a, b) == IF a > b THEN a ELSE b

\* s[:-2] and s[-2:]
AllButLast2(s) == SubSeq(s, 1, Max(Len(s) - 2, 0))
Last2(s) == SubSeq(s, Max(Len(s) - 2, 0) + 1, Len(s))

\* the tz suffix with %z left as strftime wrote it
TzSuffixAsWritten(d) ==
    IF d.aware THEN StrftimeZ(d) ELSE <<"-", "0", "0", ":", "0", "0">>

\* the tz suffix of _enrich_dict
TzSuffix(d) ==
    IF d.aware
    THEN AllButLast2(StrftimeZ(d)) \o <<":">> \o Last2(StrftimeZ(d))
    ELSE <<"-", "0", "0", ":", "0", "0">>

FormatDate(d) == StrftimeDateTime(d) \o TzSuffix(d)

-----------------------------------------------------------------------------
(* The field-mapping tables, in source order.  An entry is the pair        *)
(* (local_key, json_feed_spec); isdict tells whether json_feed_spec is a   *)
(* dict, tr and date are "" when the dict has no such key.                 *)

Entry(local, key, tr, date) ==
    [local |-> local, isdict |-> TRUE, key |-> key, tr |-> tr, date |-> date]

\* The closing brace of the 'author' entry comes before its 'tr': the
\* lambda is the value of a seventh entry of the table, named 'tr'.
TOP_LEVEL_TRANS ==
    << Entry("link", "home_page_url", "", ""),
       Entry("feed_url", "feed_url", "", ""),
       Entry("description", "description", "striptags", ""),
       Entry("favicon", "favicon", "", ""),
       Entry("icon", "icon", "", ""),
       Entry("author", "author", "", ""),
       [local |-> "tr", isdict |-> FALSE, key |-> "", tr |-> "", date |-> ""] >>

ITEMS_TRANS ==
    << Entry("id", "url", "", ""),
       Entry("url", "id", "", ""),
       Entry("link", "url", "", ""),
       Entry("title", "title", "", ""),
       Entry("content", "content_html", "", ""),
       Entry("pubdate", "date_published", "", "isoformat"),
       Entry("updateddate", "date_modified", "", "isoformat"),
       Entry("tags", "tags", "tagstr", ""),
       Entry("author", "author", "namedict", "") >>

\* json_feed_spec['tr'](markedup_value)
ApplyTr(tr, markedup_value) ==
    CASE tr = "striptags" -> StrV(striptags(markedup_value))
      [] tr = "tagstr" -> ListV(StrEach(markedup_value))
      [] tr = "namedict" -> NameDict(markedup_value)

\* The try block of _enrich_dict for one entry whose value is truthy:
\* the exception raised ("" if none) and the value to store.
Transform(json_feed_spec, value) ==
    IF ~json_feed_spec.isdict
    THEN [exc |-> "TypeError", value |-> value]
    ELSE IF json_feed_spec.tr # ""
    THEN [exc |-> "", value |-> ApplyTr(json_feed_spec.tr, Markup(value))]
    ELSE IF json_feed_spec.date # ""
    THEN IF value.kind # "datetime"
         THEN [exc |-> "AttributeError", value |-> value]
         ELSE [exc |-> "", value |-> StrV(FormatDate(value.d))]
    ELSE [exc |-> "", value |-> value]

\* _enrich_dict over the entries order[i..], in that order: the exception
\* that ended it ("" if none) and dict_ as it then is.  EnrichEntry is the
\* body of the loop for one entry, StoreValue the end of that body, given
\* what the try block made of the value.
RECURSIVE EnrichFrom(_, _, _, _, _)
RECURSIVE EnrichEntry(_, _, _, _, _, _)
RECURSIVE StoreValue(_, _, _, _, _, _, _)

EnrichFrom(dict_, translations, kwargs, order, i) ==
    IF i > Len(order) THEN [exc |-> "", dict |-> dict_]
    ELSE EnrichEntry(dict_, translations, kwargs, order, i,
                     translations[order[i]])

EnrichEntry(dict_, translations, kwargs, order, i, json_feed_spec) ==
    IF ~Truthy(Get(kwargs, json_feed_spec.local))
    THEN EnrichFrom(dict_, translations, kwargs, order, i + 1)
    ELSE StoreValue(dict_, translations, kwargs, order, i, json_feed_spec.key,
                    Transform(json_feed_spec, kwargs[json_feed_spec.local]))

StoreValue(dict_, translations, kwargs, order, i, key, tried) ==
    IF tried.exc # "" THEN [exc |-> tried.exc, dict |-> dict_]
    ELSE EnrichFrom(Put(dict_, key, tried.value), translations, kwargs,
                    order, i + 1)

_enrich_dict(dict_, translations, kwargs, order) ==
    EnrichFrom(dict_, translations, kwargs, order, 1)

\* translations.items(): the source order, and the order with 'id' and
\* 'link' exchanged.  The iteration order of a dict is the interpreter's;
\* only entries that write one target key ('id' and 'link' both write
\* 'url') make the result depend on it.
SourceOrder(translations) == [i \in 1..Len(translations) |-> i]

ExchangedOrder(translations) ==
    [i \in 1..Len(translations) |->
        IF translations[i].local = "id"
        THEN CHOOSE j \in 1..Len(translations) : translations[j].local = "link"
        ELSE IF translations[i].local = "link"
        THEN CHOOSE j \in 1..Len(translations) : translations[j].local = "id"
        ELSE i]

ItemOrders == {SourceOrder(ITEMS_TRANS), ExchangedOrder(ITEMS_TRANS)}

-----------------------------------------------------------------------------
(* The arguments the calls are made with *)

\* every kwargs dict that gives each key of a subset of DOMAIN opts one of
\* the key's values
KwargsOver(opts) ==
    UNION { {kw \in [K -> UNION {opts[k] : k \in K}] :
                \A k \in K : kw[k] \in opts[k]} : K \in SUBSET DOMAIN opts }

Naive2020 == [year |-> 2020, month |-> 1, day |-> 1, hour |-> 0, minute |-> 0,
              second |-> 0, aware |-> FALSE, offset |-> 0]
East2021 == [year |-> 2021, month |-> 12, day |-> 31, hour |-> 23,
             minute |-> 59, second |-> 58, aware |-> TRUE, offset |-> 120]
West1999 == [year |-> 1999, month |-> 7, day |-> 4, hour |-> 9, minute |-> 5,
             second |-> 7, aware |-> TRUE, offset |-> -330]

Utc2020 == [year |-> 2020, month |-> 1, day |-> 1, hour |-> 0, minute |-> 0,
            second |-> 0, aware |-> TRUE, offset |-> 0]

Titles == {<<"T">>}

\* kwargs of JSONFeed(title, **kwargs) as _create_new_feed passes them: a
\* description ('' by default) and an author (None when the context has
\* none) always; 'tr' is a name no caller of the plugin passes.  No call
\* of the model passes feed_url, favicon or icon.
InitKwargs ==
    {kw \in KwargsOver(
                [link |-> {StrV(<<"h", "/">>)},
                 description |-> {StrV(<<>>),
                                  StrV(<<"<", "b", ">", "d", "<", "/", "b", ">", " ", " ", "e">>)},
                 author |-> {NoneV, StrV(<<"A", "n", "n">>)},
                 tr |-> {StrV(<<"x">>)}]) :
        {"link", "description", "author"} \subseteq DOMAIN kw}

UniqueIds == {<<"t", "a", "g", ":", "1">>}

\* kwargs of add_item: the identifying keys; the tags and the author; the
\* texts; the dates (one of them a text, which is no date)
ItemKwargs ==
    KwargsOver([id |-> {StrV(<<"i">>)},
                url |-> {StrV(<<>>), StrV(<<"u">>)},
                link |-> {StrV(<<"l">>)}])
    \cup KwargsOver([tags |-> {ListV(<<>>), ListV(<< <<"a">>, <<"b">> >>)},
                     author |-> {StrV(<<"B", "o">>)}])
    \cup KwargsOver([title |-> {StrV(<<>>), StrV(<<"H", "i">>)}])
    \cup KwargsOver([content |-> {StrV(<<"<", "p", ">", "H", "<", "/", "p", ">">>)}])
    \cup KwargsOver([pubdate |-> {DateV(Naive2020), DateV(East2021),
                                  StrV(<<"2", "0", "2", "0">>)},
                     updateddate |-> {DateV(West1999), DateV(Utc2020)}])

-----------------------------------------------------------------------------
(* JSONFeed *)

Version == <<"https://jsonfeed.org/version/1">>

NoFeed ==
    /\ constructed = FALSE
    /\ feed = EmptyDict
    /\ items = <<>>
    /\ raised = ""
    /\ initkw = EmptyDict
    /\ given = <<>>
    /\ lastcall = ""

\* JSONFeed.__init__(title, **kwargs); an exception leaves no object
JSONFeed_init(title, kwargs) ==
    /\ ~constructed
    /\ \E r \in {_enrich_dict([version |-> StrV(Version), title |-> StrV(title)],
                              TOP_LEVEL_TRANS, kwargs,
                              SourceOrder(TOP_LEVEL_TRANS))} :
           /\ raised' = r.exc
           /\ constructed' = (r.exc = "")
           /\ feed' = IF r.exc = "" THEN r.dict ELSE feed
    /\ items' = <<>>
    /\ initkw' = kwargs
    /\ lastcall' = "__init__"
    /\ UNCHANGED given

\* add_item with the item appended before it is enriched
add_item_append_first(unique_id, kwargs, order) ==
    /\ constructed
    /\ Len(given) < MaxItems
    /\ \E r \in {_enrich_dict([id |-> StrV(unique_id)], ITEMS_TRANS, kwargs,
                              order)} :
           /\ raised' = r.exc
           /\ items' = Append(items, r.dict)
           /\ given' = IF r.exc = ""
                       THEN Append(given, [unique_id |-> unique_id, kwargs |-> kwargs])
                       ELSE given
    /\ lastcall' = "add_item"
    /\ UNCHANGED <<constructed, feed, initkw>>

\* JSONFeed.add_item(unique_id, **kwargs)
add_item(unique_id, kwargs, order) ==
    /\ constructed
    /\ Len(given) < MaxItems
    /\ \E r \in {_enrich_dict([id |-> StrV(unique_id)], ITEMS_TRANS, kwargs,
                              order)} :
           /\ raised' = r.exc
           /\ items' = IF r.exc = "" THEN Append(items, r.dict) ELSE items
           /\ given' = IF r.exc = ""
                       THEN Append(given, [unique_id |-> unique_id, kwargs |-> kwargs])
                       ELSE given
    /\ lastcall' = "add_item"
    /\ UNCHANGED <<constructed, feed, initkw>>

Construct ==
    /\ \E title \in Titles, kwargs \in InitKwargs : JSONFeed_init(title, kwargs)
    /\ UNCHANGED genvars

AddItem ==
    /\ \E unique_id \in UniqueIds, kwargs \in ItemKwargs, order \in ItemOrders :
          add_item(unique_id, kwargs, order)
    /\ UNCHANGED genvars

-----------------------------------------------------------------------------
(* The host's content: what pelican's ArticlesGenerator holds when it      *)
(* calls generate_feeds.  An article is a record of the attributes the     *)
(* plugin reads; its translations, category, author and tags are fixed by  *)
(* its id.                                                                 *)

Dates == {1, 2}

Langs == <<"fr", "de">>

\* article.translations: article i has i % 3 of them
Translation(i, k) == [id |-> 100 * k + i, date |-> k, lang |-> Langs[k]]

TranslationsOf(a) == [k \in 1..(a.id % 3) |-> Translation(a.id, k)]

RECURSIVE Flatten(_)
Flatten(ll) == IF Len(ll) = 0 THEN <<>> ELSE ll[1] \o Flatten(Tail(ll))

\* self.translations: the translations of every article of arts
AllTranslations(arts) == Flatten([i \in 1..Len(arts) |-> TranslationsOf(arts[i])])

CategoryOf(a) == IF a.id % 2 = 1 THEN "c1" ELSE "c2"
AuthorOf(a) == IF a.id <= 2 THEN "u1" ELSE "u2"
TagsOf(a) == IF a.id >= 2 THEN {"t1", "t2"} ELSE {"t1"}

\* a category, author or tag object
Wrapper(slug) == [slug |-> slug, name |-> <<"name of ", slug>>]

NonEmpty(groups) == SelectSeq(groups, LAMBDA g : Len(g.arts) > 0)

\* the host fills each grouping in the order of self.articles
HostCategories(arts) ==
    NonEmpty([i \in 1..2 |->
        LET slug == <<"c1", "c2">>[i]
        IN  [key |-> Wrapper(slug),
             arts |-> SelectSeq(arts, LAMBDA a : CategoryOf(a) = slug)]])

HostAuthors(arts) ==
    NonEmpty([i \in 1..2 |->
        LET slug == <<"u1", "u2">>[i]
        IN  [key |-> Wrapper(slug),
             arts |-> SelectSeq(arts, LAMBDA a : AuthorOf(a) = slug)]])

HostTags(arts) ==
    NonEmpty([i \in 1..2 |->
        LET slug == <<"t1", "t2">>[i]
        IN  [key |-> Wrapper(slug),
             arts |-> SelectSeq(arts, LAMBDA a : slug \in TagsOf(a))]])

\* the lists of articles 1..NumArticles, in every order, with every dating
ArticleLists ==
    { [i \in 1..NumArticles |-> [id |-> perm[i], date |-> date[perm[i]], lang |-> "en"]] :
        perm \in {f \in [1..NumArticles -> 1..NumArticles] :
                    \A i, j \in 1..NumArticles : f[i] = f[j] => i = j},
        date \in [1..NumArticles -> Dates] }

SettingNames ==
    {"FEED_JSON", "FEED_ALL_JSON", "CATEGORY_FEED_JSON", "AUTHOR_FEED_JSON",
     "TAG_FEED_JSON", "TRANSLATION_FEED_JSON"}

\* self.settings[name]: a path, with %s where a slug goes
SettingValue(name) ==
    CASE name = "FEED_JSON" -> <<"feeds/feed.json">>
      [] name = "FEED_ALL_JSON" -> <<"feeds/all.json">>
      [] name = "CATEGORY_FEED_JSON" -> <<"feeds/cat.", "%s", ".json">>
      [] name = "AUTHOR_FEED_JSON" -> <<"feeds/author.", "%s", ".json">>
      [] name = "TAG_FEED_JSON" -> <<"feeds/tag.", "%s", ".json">>
      [] name = "TRANSLATION_FEED_JSON" -> <<"feeds/lang.", "%s", ".json">>

\* template % slug
Interpolate(template, slug) ==
    [i \in 1..Len(template) |-> IF template[i] = "%s" THEN slug ELSE template[i]]

-----------------------------------------------------------------------------
(* JSONFeedGenerator.generate_feeds *)

\* the names the module binds (its imports and definitions)
ModuleGlobals ==
    {"unicode_literals", "json", "logging", "datetime", "Markup", "attrgetter",
     "signals", "generators", "writers", "pprint", "logger", "JSONFeed",
     "JSONFeedGenerator", "JSONFeedWriter", "get_generators", "get_writer",
     "register"}

\* the position of x in a list sorted by date, descending, behind every
\* element dated as x is
InsertByDate(sorted, x) ==
    LET k == Cardinality({i \in 1..Len(sorted) : sorted[i].date >= x.date})
    IN  SubSeq(sorted, 1, k) \o <<x>> \o SubSeq(sorted, k + 1, Len(sorted))

\* l.sort(key=attrgetter('date'), reverse=True): a stable sort
RECURSIVE SortByDateDesc(_)
SortByDateDesc(l) ==
    IF Len(l) = 0 THEN <<>>
    ELSE InsertByDate(SortByDateDesc(SubSeq(l, 1, Len(l) - 1)), l[Len(l)])

\* writer.write_feed(elements, context, path, feed_title=..., feed_type='json')
WriteFeed(elements, path, feed_title) ==
    [elements |-> elements, path |-> path, feed_title |-> feed_title]

NoTitle == <<>>

\* all_articles = self.articles, without the copy: the extend and the sort
\* are made on self.articles itself
AllArticlesAliased(arts) ==
    [articles |-> SortByDateDesc(arts \o AllTranslations(arts)),
     all_articles |-> SortByDateDesc(arts \o AllTranslations(arts))]

\* the extend made once, after the loop, for the last article only
AllArticlesLastOnly(arts) ==
    [articles |-> arts,
     all_articles |-> SortByDateDesc(arts \o TranslationsOf(arts[Len(arts)]))]

\* lines 126-129: self.articles and all_articles after them.  list(...)
\* copies, so the extend and the sort leave self.articles as it is.
AllArticles(arts) ==
    [articles |-> arts,
     all_articles |-> SortByDateDesc(arts \o AllTranslations(arts))]

\* arts.sort(...) on every list of a grouping
SortGroups(groups) ==
    [i \in 1..Len(groups) |->
        [key |-> groups[i].key, arts |-> SortByDateDesc(groups[i].arts)]]

\* one write_feed call per list of a grouping
GroupCalls(groups, name) ==
    [i \in 1..Len(groups) |->
        WriteFeed(groups[i].arts,
                  Interpolate(SettingValue(name), groups[i].key.slug),
                  groups[i].key.name)]

\* lines 156-158: translations_feeds, one list per language in the order
\* the languages are first met
RECURSIVE LangsIn(_)
LangsIn(l) ==
    IF Len(l) = 0 THEN <<>>
    ELSE LET rest == LangsIn(SubSeq(l, 1, Len(l) - 1))
             lang == l[Len(l)].lang
         IN  IF \E i \in 1..Len(rest) : rest[i] = lang THEN rest
             ELSE Append(rest, lang)

TranslationsFeeds(arts) ==
    LET chained == arts \o AllTranslations(arts)
        langs == LangsIn(chained)
    IN  [i \in 1..Len(langs) |->
            [lang |-> langs[i],
             items |-> SelectSeq(chained, LAMBDA a : a.lang = langs[i])]]

HostReady ==
    /\ articles \in ArticleLists
    /\ categories = HostCategories(articles)
    /\ authors = HostAuthors(articles)
    /\ tags = HostTags(articles)
    /\ settings \in SUBSET SettingNames
    /\ calls = <<>>
    /\ pc = "FEED_JSON"
    /\ generror = ""
    /\ articles0 = articles

\* lines 121-123
GenFeed ==
    /\ pc = "FEED_JSON"
    /\ calls' = IF "FEED_JSON" \in settings
                THEN Append(calls, WriteFeed(articles, SettingValue("FEED_JSON"), NoTitle))
                ELSE calls
    /\ pc' = "FEED_ALL_JSON"
    /\ UNCHANGED <<articles, categories, authors, tags, settings, generror, articles0>>
    /\ UNCHANGED feedvars

\* lines 125-132
GenFeedAll ==
    /\ pc = "FEED_ALL_JSON"
    /\ IF "FEED_ALL_JSON" \in settings
       THEN /\ articles' = AllArticles(articles).articles
            /\ calls' = Append(calls, WriteFeed(AllArticles(articles).all_articles,
                                                SettingValue("FEED_ALL_JSON"), NoTitle))
       ELSE UNCHANGED <<articles, calls>>
    /\ pc' = "categories"
    /\ UNCHANGED <<categories, authors, tags, settings, generror, articles0>>
    /\ UNCHANGED feedvars

\* lines 134-139: the sort is made whether or not the feed is written
GenCategories ==
    /\ pc = "categories"
    /\ categories' = SortGroups(categories)
    /\ calls' = IF "CATEGORY_FEED_JSON" \in settings
                THEN calls \o GroupCalls(SortGroups(categories), "CATEGORY_FEED_JSON")
                ELSE calls
    /\ pc' = "authors"
    /\ UNCHANGED <<articles, authors, tags, settings, generror, articles0>>
    /\ UNCHANGED feedvars

\* lines 141-146
GenAuthors ==
    /\ pc = "authors"
    /\ authors' = SortGroups(authors)
    /\ calls' = IF "AUTHOR_FEED_JSON" \in settings
                THEN calls \o GroupCalls(SortGroups(authors), "AUTHOR_FEED_JSON")
                ELSE calls
    /\ pc' = "tags"
    /\ UNCHANGED <<articles, categories, tags, settings, generror, articles0>>
    /\ UNCHANGED feedvars

\* lines 148-153: here the sort is inside the if
GenTags ==
    /\ pc = "tags"
    /\ IF "TAG_FEED_JSON" \in settings
       THEN /\ tags' = SortGroups(tags)
            /\ calls' = calls \o GroupCalls(SortGroups(tags), "TAG_FEED_JSON")
       ELSE UNCHANGED <<tags, calls>>
    /\ pc' = "translations"
    /\ UNCHANGED <<articles, categories, authors, settings, generror, articles0>>
    /\ UNCHANGED feedvars

\* lines 155-165: defaultdict and chain are names the module never binds;
\* looking up the first of them raises NameError
GenTranslations ==
    /\ pc = "translations"
    /\ IF "TRANSLATION_FEED_JSON" \notin settings
       THEN /\ pc' = "done"
            /\ UNCHANGED <<calls, generror>>
       ELSE IF "defaultdict" \notin ModuleGlobals \/ "chain" \notin ModuleGlobals
       THEN /\ pc' = "raised"
            /\ generror' = "NameError"
            /\ UNCHANGED calls
       ELSE /\ pc' = "done"
            /\ calls' = calls \o
                 [i \in 1..Len(TranslationsFeeds(articles)) |->
                     WriteFeed(SortByDateDesc(TranslationsFeeds(articles)[i].items),
                               Interpolate(SettingValue("TRANSLATION_FEED_JSON"),
                                           TranslationsFeeds(articles)[i].lang),
                               NoTitle)]
            /\ UNCHANGED generror
    /\ UNCHANGED <<articles, categories, authors, tags, settings, articles0>>
    /\ UNCHANGED feedvars

-----------------------------------------------------------------------------
(* Specifications *)

\* no generator at work
IdleGen ==
    /\ articles = <<>>
    /\ categories = <<>>
    /\ authors = <<>>
    /\ tags = <<>>
    /\ settings = {}
    /\ calls = <<>>
    /\ pc = "idle"
    /\ generror = ""
    /\ articles0 = <<>>

NextFeed == Construct \/ AddItem

NextGen ==
    \/ GenFeed
    \/ GenFeedAll
    \/ GenCategories
    \/ GenAuthors
    \/ GenTags
    \/ GenTranslations

\* the calls made on one JSONFeed
InitFeed == NoFeed /\ IdleGen

SpecFeed == InitFeed /\ [][NextFeed]_vars

\* one run of generate_feeds
InitGen == HostReady /\ NoFeed

SpecGen == InitGen /\ [][NextGen]_vars

-----------------------------------------------------------------------------
(* Properties of JSONFeed, stated for SpecFeed *)

\* the value add_item call i was given under a name, None if none
Given(i, local) == Get(given[i].kwargs, local)

\* C1: every item of feed['items'] carries, as its 'id', the unique_id its
\* add_item call was given, whatever else the call was given.
C1_ItemIdIsUniqueId ==
    \A i \in 1..Len(items) :
        /\ "id" \in DOMAIN items[i]
        /\ items[i]["id"] = StrV(given[i].unique_id)

\* C2: an item given a truthy list of tags holds, under 'tags', the list of
\* the string forms of those tags, one per tag and in their order.
C2_TagsAreStringForms ==
    \A i \in 1..Len(items) :
        (Given(i, "tags").kind = "list" /\ Truthy(Given(i, "tags")))
            => /\ "tags" \in DOMAIN items[i]
               /\ items[i]["tags"] = ListV(Given(i, "tags").l)

\* C3: for every entry of both tables, the entry's target key is in the
\* output mapping exactly if the entry's source value is truthy.
C3_KeyPresentIffTruthy ==
    /\ constructed =>
          \A n \in 1..Len(TOP_LEVEL_TRANS) :
              TOP_LEVEL_TRANS[n].isdict =>
                  (TOP_LEVEL_TRANS[n].key \in DOMAIN feed
                      <=> Truthy(Get(initkw, TOP_LEVEL_TRANS[n].local)))
    /\ \A i \in 1..Len(items) :
          \A n \in 1..Len(ITEMS_TRANS) :
              ITEMS_TRANS[n].key \in DOMAIN items[i]
                  <=> Truthy(Given(i, ITEMS_TRANS[n].local))

\* C4: a truthy author is stored as {"name": <its string form>}, in the
\* feed document as in an item; the bare author is never stored.
C4_AuthorIsWrapped ==
    /\ (constructed /\ Truthy(Get(initkw, "author")))
          => /\ "author" \in DOMAIN feed
             /\ feed["author"] = NameDict(initkw["author"].s)
    /\ \A i \in 1..Len(items) :
          Truthy(Given(i, "author"))
             => /\ "author" \in DOMAIN items[i]
                /\ items[i]["author"] = NameDict(Given(i, "author").s)

IsDigit(c) == c \in {"0", "1", "2", "3", "4", "5", "6", "7", "8", "9"}

DigitValue(c) == CHOOSE k \in 0..9 : DigitChars[k + 1] = c

\* the number the digits s[from..to] write
RECURSIVE Number(_, _, _)
Number(s, from, to) ==
    IF to < from THEN 0
    ELSE 10 * Number(s, from, to - 1) + DigitValue(s[to])

AllDigits(s, positions) == \A n \in positions : IsDigit(s[n])

\* s is YYYY-MM-DDTHH:MM:SS of d, then d's offset as +HH:MM or -HH:MM, or
\* -00:00 when d is naive
IsTimestampOf(s, d) ==
    /\ Len(s) = 25
    /\ AllDigits(s, {1, 2, 3, 4, 6, 7, 9, 10, 12, 13, 15, 16, 18, 19})
    /\ s[5] = "-" /\ s[8] = "-" /\ s[11] = "T" /\ s[14] = ":" /\ s[17] = ":"
    /\ Number(s, 1, 4) = d.year
    /\ Number(s, 6, 7) = d.month
    /\ Number(s, 9, 10) = d.day
    /\ Number(s, 12, 13) = d.hour
    /\ Number(s, 15, 16) = d.minute
    /\ Number(s, 18, 19) = d.second
    /\ IF d.aware
       THEN /\ AllDigits(s, {21, 22, 24, 25})
            /\ s[23] = ":"
            /\ s[20] = (IF d.offset < 0 THEN "-" ELSE "+")
            /\ 60 * Number(s, 21, 22) + Number(s, 24, 25) = Abs(d.offset)
       ELSE SubSeq(s, 20, 25) = <<"-", "0", "0", ":", "0", "0">>

DateEntries == {n \in 1..Len(ITEMS_TRANS) : ITEMS_TRANS[n].date # ""}

\* C8: a date stored through 'pubdate' or 'updateddate' is written
\* YYYY-MM-DDTHH:MM:SS and then its offset as +HH:MM or -HH:MM, or -00:00
\* when the date is naive.
C8_TimestampFormat ==
    \A i \in 1..Len(items) :
        \A n \in DateEntries :
            Given(i, ITEMS_TRANS[n].local).kind = "datetime"
               => /\ ITEMS_TRANS[n].key \in DOMAIN items[i]
                  /\ items[i][ITEMS_TRANS[n].key].kind = "str"
                  /\ IsTimestampOf(items[i][ITEMS_TRANS[n].key].s,
                                   Given(i, ITEMS_TRANS[n].local).d)

\* an item from a naive date and an item from a date two hours east of UTC,
\* whose stamp ends in +02:00
C8_Witness ==
    \E i, j \in 1..Len(items) :
        /\ Given(i, "pubdate") = DateV(Naive2020)
        /\ Given(j, "pubdate") = DateV(East2021)
        /\ "date_published" \in DOMAIN items[j]
        /\ SubSeq(items[j]["date_published"].s, 20, 25)
              = <<"+", "0", "2", ":", "0", "0">>
        /\ Given(j, "updateddate") = DateV(West1999)

\* C9: feed['items'] holds one record per add_item call that returned, in
\* call order (the i-th record is the i-th call's: it carries that call's
\* title); a call that raises leaves feed['items'] as it was.
C9_OneItemPerReturnedCall ==
    /\ [](/\ Len(items) = Len(given)
          /\ \A i \in 1..Len(items) :
                Truthy(Given(i, "title"))
                   => /\ "title" \in DOMAIN items[i]
                      /\ items[i]["title"] = Given(i, "title"))
    /\ [][lastcall' = "add_item" =>
             IF raised' = ""
             THEN /\ Len(items') = Len(items) + 1
                  /\ SubSeq(items', 1, Len(items)) = items
             ELSE items' = items]_vars

\* a call has raised on a feed that holds an item, and the feed holds it still
C9_Witness ==
    /\ lastcall = "add_item"
    /\ raised = "AttributeError"
    /\ Len(items) = 1
    /\ Truthy(Given(1, "title"))

-----------------------------------------------------------------------------
(* Properties of generate_feeds, stated for SpecGen *)

Range(l) == {l[i] : i \in 1..Len(l)}

Count(l, x) == Cardinality({i \in 1..Len(l) : l[i] = x})

Position(l, x) == CHOOSE i \in 1..Len(l) : l[i] = x

\* out holds the elements of in, each as often
IsPermutationOf(out, in) ==
    /\ Len(out) = Len(in)
    /\ \A x \in Range(in) \cup Range(out) : Count(out, x) = Count(in, x)

\* out is in (a list of distinct entries) sorted by date, descending, the
\* entries of one date in the order they have in it
IsStableSortOf(out, in) ==
    /\ IsPermutationOf(out, in)
    /\ \A i, j \in 1..Len(out) :
          i < j => /\ out[i].date >= out[j].date
                   /\ out[i].date = out[j].date
                         => Position(in, out[i]) < Position(in, out[j])

\* the write_feed calls made with a path
CallsTo(path) == {n \in 1..Len(calls) : calls[n].path = path}

RECURSIVE SumTranslations(_)
SumTranslations(arts) ==
    IF Len(arts) = 0 THEN 0
    ELSE Len(TranslationsOf(arts[1])) + SumTranslations(Tail(arts))

\* C5: with FEED_ALL_JSON set, the entries handed to write_feed for the
\* "all articles" feed are len(articles) + sum(len(translations)) many:
\* every article once and every translation of every article once; and
\* self.articles is as the host gave it.
C5_AllArticlesFeed ==
    /\ articles = articles0
    /\ (pc \notin {"FEED_JSON", "FEED_ALL_JSON"} /\ "FEED_ALL_JSON" \in settings)
          => /\ Cardinality(CallsTo(SettingValue("FEED_ALL_JSON"))) = 1
             /\ \A n \in CallsTo(SettingValue("FEED_ALL_JSON")) :
                   /\ Len(calls[n].elements)
                         = Len(articles0) + SumTranslations(articles0)
                   /\ \A a \in Range(articles0) :
                         /\ Count(calls[n].elements, a) = 1
                         /\ \A t \in Range(TranslationsOf(a)) :
                               Count(calls[n].elements, t) = 1

\* the "all articles" feed was written with translations among its entries
C5_Witness ==
    /\ pc = "done"
    /\ \E n \in CallsTo(SettingValue("FEED_ALL_JSON")) :
          /\ Len(calls[n].elements) > Len(articles)
          /\ \E a \in Range(articles) :
                Len(TranslationsOf(a)) = 2
                /\ Range(TranslationsOf(a)) \subseteq Range(calls[n].elements)

\* the arts of the list of a grouping whose feed goes to path
GroupInput(groups, name, path) ==
    LET i == CHOOSE i \in 1..Len(groups) :
                 Interpolate(SettingValue(name), groups[i].key.slug) = path
    IN  groups[i].arts

HasGroup(groups, name, path) ==
    \E i \in 1..Len(groups) :
        Interpolate(SettingValue(name), groups[i].key.slug) = path

\* the host's list a write_feed call to path is made from
HostInput(path) ==
    IF path = SettingValue("FEED_JSON") THEN articles0
    ELSE IF path = SettingValue("FEED_ALL_JSON")
    THEN articles0 \o AllTranslations(articles0)
    ELSE IF HasGroup(HostCategories(articles0), "CATEGORY_FEED_JSON", path)
    THEN GroupInput(HostCategories(articles0), "CATEGORY_FEED_JSON", path)
    ELSE IF HasGroup(HostAuthors(articles0), "AUTHOR_FEED_JSON", path)
    THEN GroupInput(HostAuthors(articles0), "AUTHOR_FEED_JSON", path)
    ELSE IF HasGroup(HostTags(articles0), "TAG_FEED_JSON", path)
    THEN GroupInput(HostTags(articles0), "TAG_FEED_JSON", path)
    ELSE SelectSeq(articles0 \o AllTranslations(articles0),
                   LAMBDA a : Interpolate(SettingValue("TRANSLATION_FEED_JSON"),
                                          a.lang) = path)

\* C6: every write_feed call of generate_feeds passes entries sorted by
\* date, descending, the entries of one date in the order the host's input
\* for that grouping has them in.
C6_EveryFeedSorted ==
    \A n \in 1..Len(calls) :
        IsStableSortOf(calls[n].elements, HostInput(calls[n].path))

\* the language codes among the articles and their translations
LangCodes ==
    {a.lang : a \in Range(articles0 \o AllTranslations(articles0))}

\* C7: with TRANSLATION_FEED_JSON set, generate_feeds ends without raising
\* and has called write_feed once per language code, with the entries of
\* that language and the path the code is interpolated into.
C7_OneFeedPerLanguage ==
    (pc \in {"done", "raised"} /\ "TRANSLATION_FEED_JSON" \in settings)
       => /\ pc = "done"
          /\ generror = ""
          /\ \A lang \in LangCodes :
                LET path == Interpolate(SettingValue("TRANSLATION_FEED_JSON"), lang)
                IN  /\ Cardinality(CallsTo(path)) = 1
                    /\ \A n \in CallsTo(path) :
                          IsPermutationOf(calls[n].elements, HostInput(path))

\* C10 as claimed: after generate_feeds, self.articles and every
\* per-category, per-author and per-tag list hold the same elements in the
\* same order as before the call.
C10_HostListsUntouched ==
    pc \in {"done", "raised"}
       => /\ articles = articles0
          /\ categories = HostCategories(articles0)
          /\ authors = HostAuthors(articles0)
          /\ tags = HostTags(articles0)

\* the lists of a grouping are those of before, each sorted in place if
\* done, untouched if not
GroupsKept(now, before, done) ==
    /\ Len(now) = Len(before)
    /\ \A i \in 1..Len(now) :
          /\ now[i].key = before[i].key
          /\ IF done THEN IsStableSortOf(now[i].arts, before[i].arts)
             ELSE now[i].arts = before[i].arts

\* C10 as amended: generate_feeds leaves self.articles as it was, and every
\* per-category, per-author and per-tag list with the elements it had; it
\* sorts the per-category and the per-author lists in place (by date,
\* descending, stable) whatever is set, and the per-tag lists when
\* TAG_FEED_JSON is set, leaving them untouched when it is not.
C10_HostListsSortedInPlace ==
    /\ articles = articles0
    /\ GroupsKept(categories, HostCategories(articles0),
                  pc \in {"authors", "tags", "translations", "done", "raised"})
    /\ GroupsKept(authors, HostAuthors(articles0),
                  pc \in {"tags", "translations", "done", "raised"})
    /\ GroupsKept(tags, HostTags(articles0),
                  pc \in {"translations", "done", "raised"}
                  /\ "TAG_FEED_JSON" \in settings)

\* with nothing set, generate_feeds has ended and a per-category and a
\* per-author list are no longer in the host's order, the per-tag lists are
C10_Witness ==
    /\ pc = "done"
    /\ settings = {}
    /\ categories # HostCategories(articles0)
    /\ authors # HostAuthors(articles0)
    /\ tags = HostTags(articles0)
    /\ \E i \in 1..Len(tags) : tags[i].arts # SortByDateDesc(tags[i].arts)

=============================================================================
